---- MODULE Spec2Model ----
(***************************************************************************)
(* A model of the Auto Fibonacci client for Interactive Brokers:           *)
(*   - AutoFibIndicator (src/cpp/AutoFibIndicator.cpp): the engine that    *)
(*     turns a vector of bars into retracement levels, a trend, a golden   *)
(*     zone and a signal;                                                  *)
(*   - IBKRAutoFibClient (src/cpp/IBKRAutoFibClient.cpp): the request /    *)
(*     callback / wait cycle that fills historical_data and hands it to    *)
(*     the engine.                                                         *)
(*                                                                         *)
(* Prices are integers (price ticks).  A ratio is kept in thousandths      *)
(* (0.382 is 382) and every level price is kept times 1000.  The code      *)
(* computes in doubles: every subtraction, product and sum is rounded to   *)
(* the nearest representable value.  The model rounds the same way, to     *)
(* Mantissa significant bits instead of 53, and keeps every value below    *)
(* 2^(Mantissa - 4) exact to the thousandth.  A std::string time label is  *)
(* a sequence of character codes, compared as std::string compares.        *)
(***************************************************************************)
EXTENDS Integers, Sequences, FiniteSets, TLC

VARIABLES
    \* ---- AutoFibIndicator (AutoFibIndicator.h:57-68)
    bars_back,          \* int bars_back
    start_bar,          \* int start_bar
    fibo_level_values,  \* std::map<std::string,double>, ratios in thousandths
    results,            \* FibonacciResults results
    last_cache,         \* last_lowest_bar .. last_is_bullish
    \* ---- the caller of a standalone engine
    in_bars,            \* the vector the caller is building / last passed
    calculated,         \* calculate has been called on the engine with in_bars
    \* ---- IBKRAutoFibClient (IBKRAutoFibClient.h:28-32)
    historical_data,    \* std::vector<Bar> historical_data
    data_ready,         \* std::atomic<bool> data_ready
    data_end_received,  \* std::atomic<bool> data_end_received
    connected,          \* client_socket->isConnected()
    \* ---- the thread inside runIndicator
    pc,                 \* where the caller of runIndicator stands
    req_no,             \* number of requests sent so far (the current one)
    poll_elapsed,       \* seconds since `start` of the polling loop
    wait_elapsed,       \* seconds since wait_for was entered
    gh_bars,            \* the vector getHistoricalData returned
    gh_path,            \* which return statement it took
    spurious,           \* a wake of this wait found the predicate false
    ri_results,         \* the FibonacciResults runIndicator returned
    \* ---- the producer (TWS) and history of the current request
    stream,             \* per request: what the producer has done for it, and
                        \* the number of bars pushed while it is open
    pushed,             \* arguments of the historicalData calls since the reset
    at_end,             \* `pushed` as of the last historicalDataEnd before the return
    end_since_reset,    \* historicalDataEnd ran since the last reset
    error_reported,     \* error() ran for the current request while it was pending
    \* ---- threads inside calculate, statement by statement
    call_pc,            \* per thread: the statement of calculate it is at
    call_bars,          \* per thread: the vector it passed
    call_ret,           \* per thread: the FibonacciResults it was returned
    \* ---- data_mutex, lock by lock (IBKRAutoFibClient.h:29)
    data_mutex,         \* the thread that holds std::mutex data_mutex, or "free"
    section,            \* per thread: where it is in a block guarded by data_mutex
    \* ---- int arithmetic and the subscripts of the last call of calculate
    overflow_wraps,     \* what this build makes of a signed sum outside int:
                        \* TRUE, the two's complement wrap; FALSE, the sum itself
    reads               \* the subscripts (from 0) at which that call read `bars`

engine_vars == <<bars_back, start_bar, fibo_level_values, results, last_cache>>
caller_vars == <<in_bars, calculated>>
client_vars == <<historical_data, data_ready, data_end_received, connected>>
thread_vars == <<pc, req_no, poll_elapsed, wait_elapsed, gh_bars, gh_path, spurious,
                ri_results>>
producer_vars == <<stream, pushed, at_end, end_since_reset, error_reported>>
call_vars == <<call_pc, call_bars, call_ret>>
lock_vars == <<data_mutex, section>>
read_vars == <<overflow_wraps, reads>>
vars == <<engine_vars, caller_vars, client_vars, thread_vars, producer_vars,
          call_vars, lock_vars, read_vars>>

-----------------------------------------------------------------------------
(* Bounds of the model.                                                    *)

MaxLen == 3          \* longest vector handed to a standalone engine
MaxBarsBack == 3     \* largest barsBack a standalone engine is built with
MaxStartBar == 1     \* largest startBar a standalone engine is built with
MaxRequests == 2     \* requests one client sends
MaxBars == 2         \* bars the producer pushes for one request
Mantissa == 7        \* significant bits a double of the model keeps
MaxSequenceBars == 2 \* largest barsBack of the engine that is called repeatedly
IntBits == 6         \* bits of an int of the model
MutexRequests == 1   \* requests sent in the model that spells out the locks

(* Program constants.                                                      *)

ClientBarsBack == 20     \* make_unique<AutoFibIndicator>(20)
DefaultStartBar == 0     \* AutoFibIndicator(int barsBack = 20, int startBar = 0)
PollSeconds == 30        \* the polling loop of runIndicator
WaitSeconds == 30        \* wait_for in getHistoricalData
Scale == 1000            \* ratios are thousandths

(* Values the inputs are drawn from.                                       *)

HighValues == {1, 2}
LowValues == {1, 2}
CloseValues == {1}
TimeLabels == {<<1>>, <<2>>}
Timestamps == {<<1>>}
BarsBackValues == (0 - 1) .. MaxBarsBack
StartBarValues == (0 - 1) .. MaxStartBar

BarValues ==
    [time : TimeLabels, high : HighValues, low : LowValues, close : CloseValues]

-----------------------------------------------------------------------------
(* std::string                                                             *)

EmptyString == << >>

Min(a, b) == IF a < b THEN a ELSE b

\* std::string operator>= in place of operator>
StrGreaterEq(a, b) ==
    LET n == Min(Len(a), Len(b))
        diff == {i \in 1..n : a[i] # b[i]}
    IN  IF diff = {}
        THEN Len(a) >= Len(b)
        ELSE LET d == CHOOSE i \in diff : \A j \in diff : i <= j
             IN  a[d] > b[d]

\* std::string operator> : lexicographic, a proper prefix sorts first
StrGreater(a, b) ==
    LET n == Min(Len(a), Len(b))
        diff == {i \in 1..n : a[i] # b[i]}
    IN  IF diff = {}
        THEN Len(a) > Len(b)
        ELSE LET d == CHOOSE i \in diff : \A j \in diff : i <= j
             IN  a[d] > b[d]

-----------------------------------------------------------------------------
(* double                                                                  *)

RECURSIVE Pow2(_)
Pow2(n) == IF n <= 0 THEN 1 ELSE 2 * Pow2(n - 1)

\* the spacing, in thousandths, of the doubles around the magnitude x
RECURSIVE GridFrom(_, _, _)
GridFrom(x, top, g) == IF x < top THEN g ELSE GridFrom(x, 2 * top, 2 * g)

Grid(x) ==
    IF x < Scale * Pow2(Mantissa - 4) THEN 1
    ELSE GridFrom(x, Scale * Pow2(Mantissa - 3), Scale \div 8)

\* round to nearest, ties to even: what every double operation does to its
\* exact result; x is in thousandths
RoundAbs(x) ==
    LET g == Grid(x)
        q == x \div g
        r == x % g
    IN  IF 2 * r < g THEN q * g
        ELSE IF 2 * r > g THEN (q + 1) * g
        ELSE IF q % 2 = 0 THEN q * g ELSE (q + 1) * g

Round(x) == IF x < 0 THEN 0 - RoundAbs(0 - x) ELSE RoundAbs(x)

-----------------------------------------------------------------------------
(* int, with IntBits bits.  A sum of two ints that leaves the range is     *)
(* undefined; the build decides what comes of it (overflow_wraps).         *)

IntMin == 0 - Pow2(IntBits - 1)
IntMax == Pow2(IntBits - 1) - 1

\* the int with the same low IntBits bits
IntWrap(x) == ((x - IntMin) % Pow2(IntBits)) + IntMin

\* a + b on int
IntAdd(a, b) ==
    IF a + b >= IntMin /\ a + b <= IntMax THEN a + b
    ELSE IF overflow_wraps THEN IntWrap(a + b) ELSE a + b

-----------------------------------------------------------------------------
(* AutoFibIndicator                                                        *)

EmptyMap == [n \in {} |-> 0]

\* AutoFibIndicator::AutoFibIndicator, the default levels
DefaultLevels ==
    [level_0 |-> 0, level_1 |-> 236, level_2 |-> 382, level_3 |-> 500,
     level_4 |-> 618, level_5 |-> 764, level_6 |-> 886, level_7 |-> 1000,
     level_8 |-> 1618, level_9 |-> 2618]

\* FibonacciResults::FibonacciResults
DefaultResults ==
    [timestamp |-> EmptyString, trend |-> "", high_value |-> 0, low_value |-> 0,
     high_time |-> EmptyString, low_time |-> EmptyString,
     high_bar_index |-> 0, low_bar_index |-> 0, fibo_range |-> 0,
     fibo_levels |-> EmptyMap, golden_zone_low |-> 0, golden_zone_high |-> 0,
     current_price |-> 0, price_in_golden_zone |-> FALSE, error |-> ""]

\* the cache members as the constructor leaves them
DefaultCache ==
    [last_lowest_bar |-> 0 - 1, last_highest_bar |-> 0 - 1,
     last_high_value |-> 0, last_low_value |-> 0, last_is_bullish |-> TRUE]

\* the loop of findLowestBar; indices are the code's (from 0)
RECURSIVE ScanLowest(_, _, _, _, _)
ScanLowest(bars, i, stop, lowest_idx, lowest_value) ==
    IF i >= stop THEN lowest_idx
    ELSE IF bars[i + 1].low < lowest_value
         THEN ScanLowest(bars, i + 1, stop, i, bars[i + 1].low)
         ELSE ScanLowest(bars, i + 1, stop, lowest_idx, lowest_value)

\* the loop of findHighestBar
RECURSIVE ScanHighest(_, _, _, _, _)
ScanHighest(bars, i, stop, highest_idx, highest_value) ==
    IF i >= stop THEN highest_idx
    ELSE IF bars[i + 1].high > highest_value
         THEN ScanHighest(bars, i + 1, stop, i, bars[i + 1].high)
         ELSE ScanHighest(bars, i + 1, stop, highest_idx, highest_value)

\* findLowestBar with <= in place of < : the last of equal lows wins
RECURSIVE ScanLowestLast(_, _, _, _, _)
ScanLowestLast(bars, i, stop, lowest_idx, lowest_value) ==
    IF i >= stop THEN lowest_idx
    ELSE IF bars[i + 1].low <= lowest_value
         THEN ScanLowestLast(bars, i + 1, stop, i, bars[i + 1].low)
         ELSE ScanLowestLast(bars, i + 1, stop, lowest_idx, lowest_value)

findLowestBarLast(bars, start, count) ==
    IF start < 0 \/ count <= 0 \/ IntAdd(start, count) > Len(bars)
    THEN 0 - 1
    ELSE ScanLowestLast(bars, start, IntAdd(start, count), start, bars[start + 1].low)

findLowestBar(bars, start, count) ==
    IF start < 0 \/ count <= 0 \/ IntAdd(start, count) > Len(bars)
    THEN 0 - 1
    ELSE ScanLowest(bars, start, IntAdd(start, count), start, bars[start + 1].low)

findHighestBar(bars, start, count) ==
    IF start < 0 \/ count <= 0 \/ IntAdd(start, count) > Len(bars)
    THEN 0 - 1
    ELSE ScanHighest(bars, start, IntAdd(start, count), start, bars[start + 1].high)

\* the length check with <= in place of <
NotEnoughBarsLE(bars, bb, sb) == Len(bars) <= IntAdd(bb, sb)

\* the length check of calculate
NotEnoughBars(bars, bb, sb) == Len(bars) < IntAdd(bb, sb)

\* the subscripts findLowestBar and findHighestBar read: bars[start] before
\* the loop, bars[i] in it
ScanReads(bars, start, count) ==
    IF start < 0 \/ count <= 0 \/ IntAdd(start, count) > Len(bars)
    THEN {}
    ELSE {start} \cup (start .. (IntAdd(start, count) - 1))

\* the subscripts of `bars`
InBars(bars) == 0 .. (Len(bars) - 1)

\* std::map::operator[] : a missing key is inserted with the value 0.0
MapIndex(m, k) == IF k \in DOMAIN m THEN m[k] ELSE 0
MapTouched(m, k) ==
    IF k \in DOMAIN m THEN m ELSE [n \in DOMAIN m \cup {k} |-> IF n = k THEN 0 ELSE m[n]]

\* the price check with < in place of <= : a flat window passes
InvalidPricesStrict(high_value, low_value) ==
    high_value <= 0 \/ low_value <= 0 \/ high_value < low_value

\* the price check of calculate
InvalidPrices(high_value, low_value) ==
    high_value <= 0 \/ low_value <= 0 \/ high_value <= low_value

\* double range = high_value - low_value
RangeOf(high_value, low_value) == Round((high_value - low_value) * Scale) \div Scale

\* the level formula with the two directions exchanged
LevelPriceSwapped(is_bullish, high_value, low_value, range, ratio) ==
    IF is_bullish THEN Round(high_value * Scale - Round(range * ratio))
                  ELSE Round(low_value * Scale + Round(range * ratio))

\* low_value + (range * ratio) when bullish, high_value - (range * ratio)
\* when bearish; the result is in thousandths
LevelPrice(is_bullish, high_value, low_value, range, ratio) ==
    IF is_bullish THEN Round(low_value * Scale + Round(range * ratio))
                  ELSE Round(high_value * Scale - Round(range * ratio))

\* the zone test with strict comparisons
InZoneStrict(price, zone_low, zone_high) ==
    price * Scale > zone_low /\ price * Scale < zone_high

\* current_price >= golden_zone_low && current_price <= golden_zone_high
InZone(price, zone_low, zone_high) ==
    price * Scale >= zone_low /\ price * Scale <= zone_high

\* an error return without the reset: the fields of the call before stay
ErrorResultsKept(e) == [results EXCEPT !.error = e]

\* results = FibonacciResults(); results.error = e; return results
ErrorResults(e) == [DefaultResults EXCEPT !.error = e]

\* calculate, as a function of the engine's state and its inputs:
\* the results it stores and returns, the level map and the cache it leaves
CalcOutcome(bars, bb, sb, levels, cache, ts) ==
    LET err(e) == [res |-> ErrorResults(e),
                   levels |-> levels, cache |-> cache]
    IN
    IF NotEnoughBars(bars, bb, sb) THEN err("Not enough bars")
    ELSE
    LET lowest_idx == findLowestBar(bars, sb, bb)
        highest_idx == findHighestBar(bars, sb, bb)
    IN
    IF lowest_idx < 0 \/ highest_idx < 0 THEN err("Could not find highest/lowest bar")
    ELSE
    LET high_value == bars[highest_idx + 1].high
        low_value == bars[lowest_idx + 1].low
    IN
    IF InvalidPrices(high_value, low_value)
    THEN err("Invalid price data")
    ELSE
    LET high_time == bars[highest_idx + 1].time
        low_time == bars[lowest_idx + 1].time
        is_bullish == StrGreater(high_time, low_time)
        fibo_range == RangeOf(high_value, low_value)
        fibo_prices ==
            [n \in DOMAIN levels |->
                LevelPrice(is_bullish, high_value, low_value, fibo_range, levels[n])]
        r2 == MapIndex(levels, "level_2")
        r4 == MapIndex(levels, "level_4")
        golden_zone_low ==
            LevelPrice(is_bullish, high_value, low_value, fibo_range,
                       IF is_bullish THEN r2 ELSE r4)
        golden_zone_high ==
            LevelPrice(is_bullish, high_value, low_value, fibo_range,
                       IF is_bullish THEN r4 ELSE r2)
        current_price == bars[Len(bars)].close
    IN
    [res |->
        [timestamp |-> ts,
         trend |-> IF is_bullish THEN "BULLISH" ELSE "BEARISH",
         high_value |-> high_value, low_value |-> low_value,
         high_time |-> high_time, low_time |-> low_time,
         high_bar_index |-> highest_idx, low_bar_index |-> lowest_idx,
         fibo_range |-> fibo_range, fibo_levels |-> fibo_prices,
         golden_zone_low |-> golden_zone_low,
         golden_zone_high |-> golden_zone_high,
         current_price |-> current_price,
         price_in_golden_zone |->
            InZone(current_price, golden_zone_low, golden_zone_high),
         error |-> ""],
     levels |-> MapTouched(MapTouched(levels, "level_2"), "level_4"),
     cache |->
        [last_lowest_bar |-> lowest_idx, last_highest_bar |-> highest_idx,
         last_high_value |-> high_value, last_low_value |-> low_value,
         last_is_bullish |-> is_bullish]]

\* getSignal with BUY and SELL exchanged
getSignalSwapped(res) ==
    IF res.error # "" THEN "NO_DATA"
    ELSE IF res.price_in_golden_zone
         THEN IF res.trend = "BULLISH" THEN "SELL" ELSE "BUY"
         ELSE "HOLD"

\* AutoFibIndicator::getSignal, on the stored results
getSignal(res) ==
    IF res.error # "" THEN "NO_DATA"
    ELSE IF res.price_in_golden_zone
         THEN IF res.trend = "BULLISH" THEN "BUY" ELSE "SELL"
         ELSE "HOLD"

\* the signal main prints for a result whose error is empty
mainSignal(res) ==
    IF res.price_in_golden_zone
    THEN IF res.trend = "BULLISH" THEN "BUY" ELSE "SELL"
    ELSE "HOLD"

-----------------------------------------------------------------------------
(* A standalone engine and its caller                                      *)

\* the caller appends one bar to the vector it will pass
AddBar(b) ==
    /\ ~calculated
    /\ Len(in_bars) < MaxLen
    /\ in_bars' = Append(in_bars, b)
    /\ UNCHANGED <<engine_vars, calculated, client_vars, thread_vars, producer_vars>>

\* AutoFibIndicator::calculate(in_bars), at wall-clock time ts
calculate(ts) ==
    /\ LET out == CalcOutcome(in_bars, bars_back, start_bar,
                              fibo_level_values, last_cache, ts)
       IN  /\ results' = out.res
           /\ fibo_level_values' = out.levels
           /\ last_cache' = out.cache
    /\ calculated' = TRUE
    /\ UNCHANGED <<bars_back, start_bar, in_bars, client_vars, thread_vars, producer_vars>>

\* the subscripts at which calculate reads `bars`.  Once a subscript of the
\* scan is outside the vector the rest of the call is undefined, and the
\* set stops there
CalcReads(bars, bb, sb) ==
    IF NotEnoughBars(bars, bb, sb) THEN {}
    ELSE
    LET scanned == ScanReads(bars, sb, bb) IN
    IF scanned = {} \/ ~(scanned \subseteq InBars(bars)) THEN scanned
    ELSE
    LET lowest_idx == findLowestBar(bars, sb, bb)
        highest_idx == findHighestBar(bars, sb, bb)
    IN
    scanned \cup {lowest_idx, highest_idx}
            \cup (IF InvalidPrices(bars[highest_idx + 1].high, bars[lowest_idx + 1].low)
                  THEN {}
                  ELSE {Len(bars) - 1})

\* `bars` as a read beyond its end sees it: followed by n - Len(bars) bars
\* that are whatever lies in memory there
PadBars(bars, b, n) == [i \in 1 .. n |-> IF i <= Len(bars) THEN bars[i] ELSE b]

\* the largest element of a non-empty set of subscripts
Furthest(S) == CHOOSE x \in S : \A y \in S : y <= x

\* AutoFibIndicator::calculate(in_bars) at time ts, with the subscripts it
\* reads recorded.  A read outside the vector is undefined: the process is
\* stopped at it with `results` as the reset left them, or the read yields
\* some bar and the call goes on with it
calculate_reading(ts) ==
    /\ calculated' = TRUE
    /\ reads' = CalcReads(in_bars, bars_back, start_bar)
    /\ IF reads' \subseteq InBars(in_bars)
       THEN LET out == CalcOutcome(in_bars, bars_back, start_bar,
                                   fibo_level_values, last_cache, ts)
            IN  /\ results' = out.res
                /\ fibo_level_values' = out.levels
                /\ last_cache' = out.cache
       ELSE \/ /\ results' = DefaultResults
               /\ UNCHANGED <<fibo_level_values, last_cache>>
            \/ \E b \in BarValues :
                  LET out == CalcOutcome(PadBars(in_bars, b, Furthest(reads') + 1),
                                         bars_back, start_bar,
                                         fibo_level_values, last_cache, ts)
                  IN  /\ results' = out.res
                      /\ fibo_level_values' = out.levels
                      /\ last_cache' = out.cache
    /\ UNCHANGED <<bars_back, start_bar, in_bars, client_vars, thread_vars,
                   producer_vars, call_vars, lock_vars, overflow_wraps>>

\* the caller drops the vector it passed and starts another
NextVector ==
    /\ calculated
    /\ in_bars' = << >>
    /\ calculated' = FALSE
    /\ UNCHANGED <<engine_vars, client_vars, thread_vars, producer_vars>>

\* AutoFibIndicator::setFibonacciLevels
setFibonacciLevels(levels) ==
    /\ fibo_level_values' = levels
    /\ UNCHANGED <<bars_back, start_bar, results, last_cache, caller_vars,
                   client_vars, thread_vars, producer_vars>>

-----------------------------------------------------------------------------
(* calculate, statement by statement, for threads that share one engine    *)

Threads == {1, 2}

\* the vectors a thread may pass: none, or one bar
CallInputs == {<< >>} \cup {<<b>> : b \in BarValues}

\* the locals of thread t's call: what calculate computes from its argument
\* and the engine's configuration
Locals(t, ts) ==
    CalcOutcome(call_bars[t], bars_back, start_bar, fibo_level_values, last_cache, ts)

CallStep(t, from, to) ==
    /\ call_pc[t] = from
    /\ call_pc' = [call_pc EXCEPT ![t] = to]
    /\ UNCHANGED <<bars_back, start_bar, caller_vars, client_vars, thread_vars,
                   producer_vars, lock_vars, read_vars>>

\* thread t calls calculate(bars)
calculate_enter(t, bars) ==
    /\ CallStep(t, "idle", "reset")
    /\ call_bars' = [call_bars EXCEPT ![t] = bars]
    /\ UNCHANGED <<fibo_level_values, results, last_cache, call_ret>>

\* results = FibonacciResults()
calculate_reset(t) ==
    /\ CallStep(t, "reset", "check")
    /\ results' = DefaultResults
    /\ UNCHANGED <<fibo_level_values, last_cache, call_bars, call_ret>>

\* the three checks: a failing one stores its message in results.error
calculate_check(t) ==
    /\ \E ts \in Timestamps :
          LET e == Locals(t, ts).res.error
          IN  IF e # ""
              THEN /\ CallStep(t, "check", "return")
                   /\ results' = [results EXCEPT !.error = e]
              ELSE /\ CallStep(t, "check", "store")
                   /\ UNCHANGED results
    /\ UNCHANGED <<fibo_level_values, last_cache, call_bars, call_ret>>

\* the golden zone's operator[] on the level map, then "Store results" up to
\* results.current_price
calculate_store(t, ts) ==
    /\ CallStep(t, "store", "zone")
    /\ LET out == Locals(t, ts)
       IN  /\ fibo_level_values' = out.levels
           /\ results' = [out.res EXCEPT
                              !.price_in_golden_zone = results.price_in_golden_zone,
                              !.error = results.error]
    /\ UNCHANGED <<last_cache, call_bars, call_ret>>

\* results.price_in_golden_zone = (results.current_price >= golden_zone_low
\*                                 && results.current_price <= golden_zone_high)
calculate_zone(t) ==
    /\ CallStep(t, "zone", "cache")
    /\ \E ts \in Timestamps :
          LET out == Locals(t, ts)
          IN  results' = [results EXCEPT !.price_in_golden_zone =
                             InZone(results.current_price,
                                    out.res.golden_zone_low, out.res.golden_zone_high)]
    /\ UNCHANGED <<fibo_level_values, last_cache, call_bars, call_ret>>

\* "Update cache"
calculate_cache(t) ==
    /\ CallStep(t, "cache", "return")
    /\ \E ts \in Timestamps : last_cache' = Locals(t, ts).cache
    /\ UNCHANGED <<fibo_level_values, results, call_bars, call_ret>>

\* return results: the caller gets a copy of the member as it is now
calculate_return(t) ==
    /\ CallStep(t, "return", "done")
    /\ call_ret' = [call_ret EXCEPT ![t] = results]
    /\ UNCHANGED <<fibo_level_values, results, last_cache, call_bars>>

-----------------------------------------------------------------------------
(* IBKRAutoFibClient                                                       *)

LockThreads == {"caller", "reader"}

Requests == 1 .. MaxRequests

\* the k-th bar the producer delivers for request r; its time label tells
\* the bars of the model apart
BarOf(r, k) == [time |-> <<r, k>>, high |-> 2, low |-> 1, close |-> 1]

\* the producer's side of a request: not sent yet ("none"), being answered
\* ("open", n bars pushed so far), or closed by historicalDataEnd ("ended")
\* or by error ("failed"), or given up ("lost")
Open(n) == [st |-> "open", n |-> n]
Closed(how) == [st |-> how, n |-> 0]

\* the producer answers the requests in the order they were sent, over one
\* socket: r is the oldest request it has not closed
Serving(r) ==
    /\ connected
    /\ stream[r].st = "open"
    /\ \A q \in 1 .. (r - 1) : stream[q].st # "open"

\* a push that puts the bar in front
PushFront(v, bar) == <<bar>> \o v

\* historical_data.push_back(bar)
PushBack(v, bar) == Append(v, bar)

\* a wait without a predicate: any wake ends it
WaitNoPred == TRUE

\* a wait that never sees the flag
WaitBlind == FALSE

\* the predicate of wait_for: [this] { return data_end_received.load(); }
WaitPred == data_end_received

\* a timeout that hands out the buffer as it is
TimeoutReturnPartial(buf) == buf

\* what getHistoricalData returns when wait_for returns false
TimeoutReturn(buf) == << >>

\* the caller is between the reset and the return of getHistoricalData
Pending == pc \in {"polling", "get", "waiting"}

\* runIndicator up to the polling loop: requestHistoricalData resets the
\* buffer and the flags under data_mutex and sends the request
runIndicator_request ==
    /\ pc = "idle"
    /\ req_no < MaxRequests
    /\ gh_bars' = << >>
    /\ gh_path' = "none"
    /\ spurious' = FALSE
    /\ IF ~connected
       THEN /\ ri_results' = [DefaultResults EXCEPT !.error = "Failed to request historical data"]
            /\ UNCHANGED <<client_vars, pc, req_no, poll_elapsed, wait_elapsed, producer_vars>>
       ELSE /\ historical_data' = << >>
            /\ data_ready' = FALSE
            /\ data_end_received' = FALSE
            /\ req_no' = req_no + 1
            /\ stream' = [stream EXCEPT ![req_no + 1] = Open(0)]
            /\ at_end' = << >>
            /\ pushed' = << >>
            /\ end_since_reset' = FALSE
            /\ error_reported' = FALSE
            /\ ri_results' = DefaultResults
            /\ pc' = "polling"
            /\ poll_elapsed' = 0
            /\ wait_elapsed' = 0
            /\ UNCHANGED connected
    /\ UNCHANGED <<engine_vars, caller_vars>>

\* the polling loop of runIndicator ends: the flag is set or 30 s have passed
\* (an iteration that stays in the loop changes nothing: the callbacks that
\* processMsgs dispatches are the producer's actions below)
PollExit ==
    /\ pc = "polling"
    /\ (data_end_received \/ poll_elapsed >= PollSeconds)
    /\ pc' = "get"
    /\ UNCHANGED <<engine_vars, caller_vars, client_vars, req_no, poll_elapsed,
                   wait_elapsed, gh_bars, gh_path, spurious, ri_results,
                   producer_vars>>

\* getHistoricalData returns historical_data
ReturnData ==
    /\ gh_bars' = historical_data
    /\ gh_path' = "success"
    /\ pc' = "got"

\* getHistoricalData: lock, first evaluation of the predicate by wait_for
getHistoricalData_enter ==
    /\ pc = "get"
    /\ IF WaitPred
       THEN ReturnData /\ UNCHANGED wait_elapsed
       ELSE /\ pc' = "waiting"
            /\ wait_elapsed' = 0
            /\ UNCHANGED <<gh_bars, gh_path>>
    /\ UNCHANGED <<engine_vars, caller_vars, client_vars, req_no, poll_elapsed,
                   spurious, ri_results, producer_vars>>

\* a wake of the condition variable before the deadline, by notify_all or
\* spurious: wait_for re-locks and evaluates the predicate again
Wake ==
    /\ pc = "waiting"
    /\ wait_elapsed < WaitSeconds
    /\ IF WaitPred
       THEN ReturnData /\ UNCHANGED spurious
       ELSE spurious' = TRUE /\ UNCHANGED <<pc, gh_bars, gh_path>>
    /\ UNCHANGED <<engine_vars, caller_vars, client_vars, req_no, poll_elapsed,
                   wait_elapsed, ri_results, producer_vars>>

\* the deadline of wait_for passes: wait_for returns the predicate's value
WaitTimeout ==
    /\ pc = "waiting"
    /\ wait_elapsed >= WaitSeconds
    /\ IF WaitPred
       THEN ReturnData
       ELSE /\ gh_bars' = TimeoutReturn(historical_data)
            /\ gh_path' = "timeout"
            /\ pc' = "got"
    /\ UNCHANGED <<engine_vars, caller_vars, client_vars, req_no, poll_elapsed,
                   wait_elapsed, spurious, ri_results, producer_vars>>

\* the rest of runIndicator: an empty vector is an error, anything else
\* goes to the client's engine
runIndicator_finish ==
    /\ pc = "got"
    /\ pc' = "idle"
    /\ IF gh_bars = << >>
       THEN /\ ri_results' = [DefaultResults EXCEPT !.error = "No data received"]
            /\ UNCHANGED engine_vars
       ELSE LET out == CalcOutcome(gh_bars, bars_back, start_bar,
                                   fibo_level_values, last_cache, <<req_no>>)
            IN  /\ results' = out.res
                /\ fibo_level_values' = out.levels
                /\ last_cache' = out.cache
                /\ ri_results' = out.res
                /\ UNCHANGED <<bars_back, start_bar>>
    /\ UNCHANGED <<caller_vars, client_vars, req_no, poll_elapsed, wait_elapsed,
                   gh_bars, gh_path, spurious, producer_vars>>

\* time passes until the deadline the waiting thread watches: the clocks
\* are kept as the seconds known to have passed, nothing being observable
\* between the start of a wait and its deadline
Tick ==
    /\ \/ /\ pc = "polling"
          /\ poll_elapsed < PollSeconds
          /\ poll_elapsed' = PollSeconds
          /\ UNCHANGED wait_elapsed
       \/ /\ pc = "waiting"
          /\ wait_elapsed < WaitSeconds
          /\ wait_elapsed' = WaitSeconds
          /\ UNCHANGED poll_elapsed
    /\ UNCHANGED <<engine_vars, caller_vars, client_vars, pc, req_no, gh_bars,
                   gh_path, spurious, ri_results, producer_vars>>

\* the EWrapper callbacks; each holds data_mutex for its whole body, so each
\* is one step.  The callbacks take no notice of reqId: r is the request the
\* producer answers, which the code never looks at.  They are dispatched from
\* the socket's messages, so none runs once the socket is closed.

\* historicalData(reqId, bar)
historicalData(r) ==
    /\ Serving(r)
    /\ stream[r].n < MaxBars
    /\ historical_data' = PushBack(historical_data, BarOf(r, stream[r].n + 1))
    /\ stream' = [stream EXCEPT ![r] = Open(stream[r].n + 1)]
    /\ pushed' = Append(pushed, BarOf(r, stream[r].n + 1))
    /\ UNCHANGED <<engine_vars, caller_vars, data_ready, data_end_received,
                   connected, thread_vars, at_end, end_since_reset,
                   error_reported>>

\* historicalDataEnd(reqId, start, end)
historicalDataEnd(r) ==
    /\ Serving(r)
    /\ stream' = [stream EXCEPT ![r] = Closed("ended")]
    /\ data_end_received' = TRUE
    /\ data_ready' = TRUE
    /\ IF Pending
       THEN at_end' = pushed /\ end_since_reset' = TRUE
       ELSE UNCHANGED <<at_end, end_since_reset>>
    /\ UNCHANGED <<engine_vars, caller_vars, historical_data, connected,
                   thread_vars, pushed, error_reported>>

\* error(id, errorCode, errorString, json): prints, and nothing else
error(r) ==
    /\ Serving(r)
    /\ stream' = [stream EXCEPT ![r] = Closed("failed")]
    /\ error_reported' = (error_reported \/ (r = req_no /\ Pending))
    /\ UNCHANGED <<engine_vars, caller_vars, client_vars, thread_vars,
                   pushed, at_end, end_since_reset>>

\* the producer gives up a request without a word: no callback runs
NoAnswer(r) ==
    /\ Serving(r)
    /\ stream' = [stream EXCEPT ![r] = Closed("lost")]
    /\ UNCHANGED <<engine_vars, caller_vars, client_vars, thread_vars,
                   pushed, at_end, end_since_reset, error_reported>>

\* the socket is closed under the client: connectionClosed() prints
connectionClosed ==
    /\ connected
    /\ connected' = FALSE
    /\ UNCHANGED <<engine_vars, caller_vars, historical_data, data_ready,
                   data_end_received, thread_vars, producer_vars>>

-----------------------------------------------------------------------------
(* The blocks guarded by data_mutex, lock by lock                          *)

\* a guard that does not take the mutex
NoLock(t) == UNCHANGED data_mutex

\* std::lock_guard / std::unique_lock on data_mutex: the constructor returns
\* once the mutex is free, and the thread owns it
Lock(t) ==
    /\ data_mutex = "free"
    /\ data_mutex' = t

\* the destructor of the guard, or wait_for going to sleep
Unlock(t) == data_mutex' = "free"

\* thread t stands before a block guarded by data_mutex: the caller before
\* the reset of requestHistoricalData, before getHistoricalData, or woken
\* inside wait_for; the reader before a historicalData or historicalDataEnd
WantsLock(t) ==
    IF t = "caller"
    THEN \/ pc = "idle" /\ connected /\ req_no < MutexRequests
         \/ pc = "get"
         \/ pc = "waiting"
    ELSE \E r \in Requests : Serving(r)

SectionStep(t, from, to) ==
    /\ section[t] = from
    /\ section' = [section EXCEPT ![t] = to]

\* the guard is constructed
EnterSection(t) ==
    /\ SectionStep(t, "out", "held")
    /\ WantsLock(t)
    /\ Lock(t)
    /\ UNCHANGED <<engine_vars, caller_vars, client_vars, thread_vars,
                   producer_vars, call_vars, read_vars>>

\* the thread reaches the statement that reads or writes historical_data
BeginAccess(t) ==
    /\ SectionStep(t, "held", "access")
    /\ UNCHANGED <<engine_vars, caller_vars, client_vars, thread_vars,
                   producer_vars, call_vars, data_mutex, read_vars>>

\* the caller's guarded statements: the reset, or the predicate of wait_for
\* and the return of getHistoricalData
CallerBody ==
    /\ SectionStep("caller", "access", "leave")
    /\ \/ runIndicator_request
       \/ getHistoricalData_enter
       \/ Wake
       \/ WaitTimeout
    /\ UNCHANGED <<call_vars, data_mutex, read_vars>>

\* the reader's guarded statements: the body of a callback
ReaderBody(r) ==
    /\ SectionStep("reader", "access", "leave")
    /\ \/ historicalData(r)
       \/ historicalDataEnd(r)
    /\ UNCHANGED <<call_vars, data_mutex, read_vars>>

\* the guard goes out of scope, or wait_for blocks again
LeaveSection(t) ==
    /\ SectionStep(t, "leave", "out")
    /\ Unlock(t)
    /\ UNCHANGED <<engine_vars, caller_vars, client_vars, thread_vars,
                   producer_vars, call_vars, read_vars>>

\* a step of thread t that takes no lock
Unguarded(t) ==
    /\ section[t] = "out"
    /\ UNCHANGED <<call_vars, lock_vars, read_vars>>

\* requestHistoricalData returns false before it reaches the guarded block
runIndicator_refused ==
    /\ ~connected
    /\ runIndicator_request

-----------------------------------------------------------------------------
(* Specifications                                                          *)

InitEngineObject(bb, sb) ==
    /\ bars_back = bb
    /\ start_bar = sb
    /\ fibo_level_values = DefaultLevels
    /\ results = DefaultResults
    /\ last_cache = DefaultCache

InitCaller ==
    /\ in_bars = << >>
    /\ calculated = FALSE

\* IBKRAutoFibClient::IBKRAutoFibClient, then connect() as main requires
InitClient ==
    /\ historical_data = << >>
    /\ data_ready = FALSE
    /\ data_end_received = FALSE
    /\ connected = TRUE
    /\ pc = "idle"
    /\ req_no = 0
    /\ poll_elapsed = 0
    /\ wait_elapsed = 0
    /\ gh_bars = << >>
    /\ gh_path = "none"
    /\ spurious = FALSE
    /\ ri_results = DefaultResults
    /\ stream = [r \in Requests |-> Closed("none")]
    /\ pushed = << >>
    /\ at_end = << >>
    /\ end_since_reset = FALSE
    /\ error_reported = FALSE

\* no thread is inside calculate
InitCalls ==
    /\ call_pc = [t \in Threads |-> "idle"]
    /\ call_bars = [t \in Threads |-> << >>]
    /\ call_ret = [t \in Threads |-> DefaultResults]

\* no call of calculate yet; no sum of the specifications below leaves int
InitReads ==
    /\ overflow_wraps = TRUE
    /\ reads = {}

\* std::mutex as constructed: unlocked
InitLock ==
    /\ data_mutex = "free"
    /\ section = [t \in LockThreads |-> "out"]

\* a step of the model in which calculate and the blocks guarded by
\* data_mutex are single steps
Whole == UNCHANGED <<call_vars, lock_vars, read_vars>>

\* the client and the engine it owns
Init ==
    /\ InitEngineObject(ClientBarsBack, DefaultStartBar)
    /\ InitCaller
    /\ InitClient
    /\ InitCalls
    /\ InitLock
    /\ InitReads

Next ==
    \/ runIndicator_request /\ Whole
    \/ PollExit /\ Whole
    \/ getHistoricalData_enter /\ Whole
    \/ Wake /\ Whole
    \/ WaitTimeout /\ Whole
    \/ runIndicator_finish /\ Whole
    \/ Tick /\ Whole
    \/ \E r \in Requests : historicalData(r) /\ Whole
    \/ \E r \in Requests : historicalDataEnd(r) /\ Whole
    \/ \E r \in Requests : error(r) /\ Whole
    \/ \E r \in Requests : NoAnswer(r) /\ Whole
    \/ connectionClosed /\ Whole

Spec == Init /\ [][Next]_vars

\* a standalone engine, built with any barsBack and startBar, fed any bars
InitEngine ==
    /\ \E bb \in BarsBackValues, sb \in StartBarValues : InitEngineObject(bb, sb)
    /\ InitCaller
    /\ InitClient
    /\ InitCalls
    /\ InitLock
    /\ InitReads

NextEngine ==
    \/ \E b \in BarValues : AddBar(b) /\ Whole
    \/ \E ts \in Timestamps : calculate(ts) /\ Whole

SpecEngine == InitEngine /\ [][NextEngine]_vars

\* a standalone engine with the default window start, fed bars whose prices
\* include zero, flat bars, and a high far above the low
MaxPriceBars == 2
PriceTimeLabels == {<<1>>, <<1, 0>>, <<2>>}
PriceHighs == {0, 1, 130}
PriceLows == {0, 1}
PriceBarValues ==
    [time : PriceTimeLabels, high : PriceHighs, low : PriceLows, close : CloseValues]

InitPrices ==
    /\ \E bb \in 1 .. MaxPriceBars : InitEngineObject(bb, DefaultStartBar)
    /\ InitCaller
    /\ InitClient
    /\ InitCalls
    /\ InitLock
    /\ InitReads

AddPriceBar(b) ==
    /\ Len(in_bars) < MaxPriceBars
    /\ AddBar(b)

NextPrices ==
    \/ \E b \in PriceBarValues : AddPriceBar(b) /\ Whole
    \/ \E ts \in Timestamps : calculate(ts) /\ Whole

SpecPrices == InitPrices /\ [][NextPrices]_vars

\* a standalone engine whose caller may install a level set of its own
\* before it calls calculate, once or several times, on the same bars
MaxLevelBars == 2
LevelHighs == {2, 3}
LevelLows == {1}
LevelCloses == {1, 2, 3}
LevelTimestamps == {<<1>>, <<2>>}
LevelBarValues ==
    [time : TimeLabels, high : LevelHighs, low : LevelLows, close : LevelCloses]

\* the two golden ratios at each other's names
SwappedLevels == [level_2 |-> 618, level_4 |-> 382]
\* the two golden ratios under names of the caller's own
RenamedLevels == [fib_382 |-> 382, fib_618 |-> 618]
\* other ratios at the names level_2 and level_4
HalfLevels == [level_2 |-> 500, level_4 |-> 1000]

LevelSets == {DefaultLevels, SwappedLevels, RenamedLevels, HalfLevels}

InitLevels ==
    /\ InitEngineObject(MaxLevelBars, DefaultStartBar)
    /\ InitCaller
    /\ InitClient
    /\ InitCalls
    /\ InitLock
    /\ InitReads

AddLevelBar(b) ==
    /\ Len(in_bars) < MaxLevelBars
    /\ AddBar(b)

\* the caller configures the engine before its first call of calculate
Configure(levels) ==
    /\ ~calculated
    /\ setFibonacciLevels(levels)

NextLevels ==
    \/ \E b \in LevelBarValues : AddLevelBar(b) /\ Whole
    \/ \E levels \in LevelSets : Configure(levels) /\ Whole
    \/ \E ts \in LevelTimestamps : calculate(ts) /\ Whole

SpecLevels == InitLevels /\ [][NextLevels]_vars

\* one engine, two threads that each call calculate once on a vector of
\* their own, with no lock
InitThreads ==
    /\ InitEngineObject(1, DefaultStartBar)
    /\ InitCaller
    /\ InitClient
    /\ InitCalls
    /\ InitLock
    /\ InitReads

NextThreads ==
    \/ \E t \in Threads, bars \in CallInputs : calculate_enter(t, bars)
    \/ \E t \in Threads : calculate_reset(t)
    \/ \E t \in Threads : calculate_check(t)
    \/ \E t \in Threads, ts \in Timestamps : calculate_store(t, ts)
    \/ \E t \in Threads : calculate_zone(t)
    \/ \E t \in Threads : calculate_cache(t)
    \/ \E t \in Threads : calculate_return(t)

SpecThreads == InitThreads /\ [][NextThreads]_vars

\* the client with every block guarded by data_mutex spelled out: taking
\* the lock, the guarded statements, and releasing it are steps of their
\* own, of the thread inside runIndicator and of the thread that runs the
\* callbacks.  A step that takes no lock is a step of a thread outside its
\* blocks; the socket is closed between two blocks.

NextMutex ==
    \/ \E t \in LockThreads : EnterSection(t)
    \/ \E t \in LockThreads : BeginAccess(t)
    \/ CallerBody
    \/ \E r \in Requests : ReaderBody(r)
    \/ \E t \in LockThreads : LeaveSection(t)
    \/ runIndicator_refused /\ Unguarded("caller")
    \/ PollExit /\ Unguarded("caller")
    \/ runIndicator_finish /\ Unguarded("caller")
    \/ Tick /\ Unguarded("caller")
    \/ \E r \in Requests : error(r) /\ Unguarded("reader")
    \/ \E r \in Requests : NoAnswer(r) /\ Unguarded("reader")
    \/ connectionClosed /\ Unguarded("reader") /\ Unguarded("caller")

SpecMutex == Init /\ [][NextMutex]_vars

\* a standalone engine built with any two ints, the ends of the range among
\* them, under either outcome of a sum that leaves the range
WindowInts == {IntMin, 0 - 1, 0, 1, 2, IntMax}

WindowBarValues ==
    {[time |-> <<1>>, high |-> 2, low |-> 1, close |-> 1],
     [time |-> <<2>>, high |-> 1, low |-> 1, close |-> 1]}

InitWindow ==
    /\ \E bb \in WindowInts, sb \in WindowInts : InitEngineObject(bb, sb)
    /\ InitCaller
    /\ InitClient
    /\ InitCalls
    /\ InitLock
    /\ overflow_wraps \in BOOLEAN
    /\ reads = {}

NextWindow ==
    \/ \E b \in WindowBarValues : AddBar(b) /\ Whole
    \/ \E ts \in Timestamps : calculate_reading(ts)

SpecWindow == InitWindow /\ [][NextWindow]_vars

\* one engine called again and again, each time on a vector of the caller's
\* choice: too short, with a flat window, or with a window that has a range
SequenceBarValues ==
    {[time |-> <<1>>, high |-> 2, low |-> 1, close |-> 1],
     [time |-> <<2>>, high |-> 2, low |-> 1, close |-> 2],
     [time |-> <<2>>, high |-> 1, low |-> 1, close |-> 1]}

InitSequence ==
    /\ \E bb \in 1 .. MaxSequenceBars : InitEngineObject(bb, DefaultStartBar)
    /\ InitCaller
    /\ InitClient
    /\ InitCalls
    /\ InitLock
    /\ InitReads

NextSequence ==
    \/ \E b \in SequenceBarValues : AddBar(b) /\ Whole
    \/ \E ts \in Timestamps : calculate(ts) /\ Whole
    \/ NextVector /\ Whole

SpecSequence == InitSequence /\ [][NextSequence]_vars

-----------------------------------------------------------------------------
(* Properties of the client, checked under Spec                            *)

\* the request a bar of the model was delivered for
OwnerOf(bar) == bar.time[1]

\* the seconds the caller has waited for the current request's bars: the
\* polling loop, then wait_for
WaitedSeconds == poll_elapsed + wait_elapsed

\* C1: the bars a successful getHistoricalData returns for request N were
\* all delivered for request N; no bar of an earlier request is among them.
C1_OnlyOwnBars ==
    gh_path = "success" =>
        \A i \in 1 .. Len(gh_bars) : OwnerOf(gh_bars[i]) = req_no

\* C2: getHistoricalData returns by its success path, with the buffer as it
\* then is, only if historicalDataEnd has run since the last reset, and a
\* wake leaves the wait only when the end has been signalled or the timeout
\* has elapsed.
C2_SuccessOnlyAfterEnd ==
    [][ /\ (gh_path' = "success" => end_since_reset')
        /\ (gh_path # "success" /\ gh_path' = "success" => gh_bars' = historical_data)
        /\ (pc = "waiting" /\ pc' # "waiting"
               => end_since_reset \/ wait_elapsed >= WaitSeconds) ]_vars

\* C2, the case: a wake found the predicate false, the caller kept waiting,
\* and historicalDataEnd then released it
C2_Witness ==
    /\ gh_path = "success"
    /\ spurious
    /\ end_since_reset

C4_EmptySuccessRunsEngine ==
    (pc = "idle" /\ gh_path = "success" /\ gh_bars = << >>) =>
        /\ ri_results.error = "Not enough bars"
        /\ ri_results.error # "No data received"

\* C5: when error() is called for the pending request, the acquisition ends
\* without waiting for the timeout, and the failure is not reported through
\* the error field of the FibonacciResults.
C5_ErrorEndsAcquisition ==
    (pc = "idle" /\ error_reported) =>
        /\ gh_path # "timeout"
        /\ ri_results.error = ""

\* C6: the bars passed to historicalData since the reset and before the
\* historicalDataEnd that releases the caller are in the returned vector,
\* each once and in the order of the calls.
C6_PushesVisibleInOrder ==
    gh_path = "success" =>
        /\ Len(at_end) <= Len(gh_bars)
        /\ SubSeq(gh_bars, 1, Len(at_end)) = at_end
        /\ \A k \in 1 .. Len(at_end) :
              Cardinality({i \in 1 .. Len(gh_bars) : gh_bars[i] = at_end[k]}) = 1

\* C6, the case: two bars pushed before the end, and the caller released
C6_Witness ==
    /\ gh_path = "success"
    /\ Len(at_end) >= 2
    /\ at_end[1] # at_end[2]

\* C7: when historicalDataEnd never comes, the wait (polling loop, then
\* getHistoricalData) ends with the timeout not before one timeout period
\* and not more than one timeout period after it began.
C7_TimeoutWithinOnePeriod ==
    gh_path = "timeout" =>
        /\ WaitedSeconds >= WaitSeconds
        /\ WaitedSeconds <= WaitSeconds

-----------------------------------------------------------------------------
(* Properties of the engine, checked under SpecEngine                      *)

\* the window calculate scans, in the code's indices (from 0)
Window == start_bar .. (start_bar + bars_back - 1)

\* the bars_back most recent bars that end start_bar before the last bar
RecentSpan ==
    (Len(in_bars) - start_bar - bars_back) .. (Len(in_bars) - start_bar - 1)

\* oldest first: no bar's time label sorts after a later bar's
TimeOrdered(bars) ==
    \A i \in 1 .. Len(bars) : \A j \in i .. Len(bars) :
        ~StrGreater(bars[i].time, bars[j].time)

MaxOf(S) == CHOOSE x \in S : \A y \in S : y <= x
MinOf(S) == CHOOSE x \in S : \A y \in S : x <= y

\* C8: calculate reports "Not enough bars" exactly when the vector is
\* shorter than bars_back + start_bar, and the signal is then NO_DATA.
C8_InsufficientData ==
    calculated =>
        /\ (results.error = "Not enough bars")
              <=> (Len(in_bars) < bars_back + start_bar)
        /\ (results.error = "Not enough bars" => getSignal(results) = "NO_DATA")

\* C8, the case: one bar short of bars_back + start_bar
C8_Witness ==
    /\ calculated
    /\ bars_back > 0
    /\ start_bar >= 0
    /\ Len(in_bars) = bars_back + start_bar - 1
    /\ results.error = "Not enough bars"
    /\ getSignal(results) = "NO_DATA"

\* C9: in an error-free result low_bar_index is the first index of the
\* window holding the window's least low, high_bar_index the first holding
\* its greatest high, and the reported values bound every bar of the window.
C9_FirstExtremes ==
    (calculated /\ results.error = "") =>
        LET lows == {in_bars[i + 1].low : i \in Window}
            highs == {in_bars[i + 1].high : i \in Window}
        IN  /\ Window # {}
            /\ results.low_value = MinOf(lows)
            /\ results.high_value = MaxOf(highs)
            /\ results.low_bar_index =
                  MinOf({i \in Window : in_bars[i + 1].low = MinOf(lows)})
            /\ results.high_bar_index =
                  MinOf({i \in Window : in_bars[i + 1].high = MaxOf(highs)})
            /\ \A i \in Window :
                  /\ results.high_value >= in_bars[i + 1].high
                  /\ results.low_value <= in_bars[i + 1].low

\* C9, the case: the least low and the greatest high each occur twice in a
\* window that also holds other values, and the first index is reported
C9_Witness ==
    /\ calculated
    /\ results.error = ""
    /\ \E i \in Window : i > results.low_bar_index
                         /\ in_bars[i + 1].low = results.low_value
    /\ \E i \in Window : i > results.high_bar_index
                         /\ in_bars[i + 1].high = results.high_value
    /\ \E i \in Window : in_bars[i + 1].low > results.low_value
    /\ \E i \in Window : in_bars[i + 1].high < results.high_value

\* C10: with the bars oldest first and more of them than
\* bars_back + start_bar, the reported extremes are those of the bars_back
\* most recent bars ending start_bar before the last bar.
C10_ExtremesFromRecentSpan ==
    (/\ calculated
     /\ results.error = ""
     /\ TimeOrdered(in_bars)
     /\ Len(in_bars) > bars_back + start_bar) =>
        /\ results.high_value = MaxOf({in_bars[i + 1].high : i \in RecentSpan})
        /\ results.low_value = MinOf({in_bars[i + 1].low : i \in RecentSpan})
        /\ results.high_bar_index \in RecentSpan
        /\ results.low_bar_index \in RecentSpan

-----------------------------------------------------------------------------
(* Properties of the prices, checked under SpecPrices                      *)

\* calculate passed the length check and found both extremes
WindowChecksPass ==
    /\ calculated
    /\ results.error # "Not enough bars"
    /\ results.error # "Could not find highest/lowest bar"

WindowHigh == MaxOf({in_bars[i + 1].high : i \in Window})
WindowLow == MinOf({in_bars[i + 1].low : i \in Window})

\* C11: when the window checks pass, calculate reports "Invalid price data"
\* exactly when the window's high is <= 0, or its low is <= 0, or the high
\* is <= the low (a flat window included); otherwise it reports no error
\* and a range that is the double difference high - low and is positive.
C11_InvalidPriceData ==
    WindowChecksPass =>
        /\ (results.error = "Invalid price data")
              <=> (WindowHigh <= 0 \/ WindowLow <= 0 \/ WindowHigh <= WindowLow)
        /\ (results.error # "Invalid price data" =>
              /\ results.error = ""
              /\ results.fibo_range * Scale = Round((WindowHigh - WindowLow) * Scale)
              /\ results.fibo_range > 0)

\* C11, the case: a flat window of positive prices is rejected
C11_Witness ==
    /\ WindowChecksPass
    /\ WindowHigh > 0
    /\ WindowHigh = WindowLow
    /\ results.error = "Invalid price data"


\* a sorts strictly before b in the order of the time labels: character by
\* character, a proper prefix first
RECURSIVE SortsBefore(_, _)
SortsBefore(a, b) ==
    IF b = << >> THEN FALSE
    ELSE IF a = << >> THEN TRUE
    ELSE IF Head(a) # Head(b) THEN Head(a) < Head(b)
    ELSE SortsBefore(Tail(a), Tail(b))

\* C12: in an error-free result the trend is BULLISH exactly when the time
\* label of the high bar sorts strictly after the time label of the low
\* bar, and BEARISH otherwise: on the same bar, or on equal labels, BEARISH.
C12_TrendByTimeLabels ==
    (calculated /\ results.error = "") =>
        LET high_label == in_bars[results.high_bar_index + 1].time
            low_label == in_bars[results.low_bar_index + 1].time
        IN  /\ results.high_time = high_label
            /\ results.low_time = low_label
            /\ results.trend = IF SortsBefore(low_label, high_label)
                               THEN "BULLISH" ELSE "BEARISH"
            /\ (results.high_bar_index = results.low_bar_index
                    => results.trend = "BEARISH")
            /\ (high_label = low_label => results.trend = "BEARISH")

\* C12, the case: the high and the low lie on two bars with equal labels
C12_Witness ==
    /\ calculated
    /\ results.error = ""
    /\ results.high_bar_index # results.low_bar_index
    /\ results.high_time = results.low_time
    /\ results.trend = "BEARISH"


\* the names of the configured levels whose ratio is r (in thousandths)
LevelsOfRatio(r) == {n \in DOMAIN results.fibo_levels : fibo_level_values[n] = r}

\* every configured level has a price, and it is low + range * ratio when
\* BULLISH, high - range * ratio when BEARISH, as doubles
LevelFormulaHolds ==
    /\ DOMAIN results.fibo_levels = DOMAIN fibo_level_values
    /\ \A n \in DOMAIN results.fibo_levels :
          results.fibo_levels[n] =
              IF results.trend = "BULLISH"
              THEN Round(results.low_value * Scale
                         + Round(results.fibo_range * fibo_level_values[n]))
              ELSE Round(results.high_value * Scale
                         - Round(results.fibo_range * fibo_level_values[n]))

\* the level of ratio 0 is the price the levels start from
RatioZeroAtOrigin ==
    \A n \in LevelsOfRatio(0) :
        results.fibo_levels[n] =
            IF results.trend = "BULLISH" THEN results.low_value * Scale
                                         ELSE results.high_value * Scale

\* the level of ratio 1.0 is the opposite extreme
RatioOneAtExtreme ==
    \A n \in LevelsOfRatio(Scale) :
        results.fibo_levels[n] =
            IF results.trend = "BULLISH" THEN results.high_value * Scale
                                         ELSE results.low_value * Scale

\* C13: in an error-free result every configured ratio r has the level
\* price low + range * r when BULLISH and high - range * r when BEARISH;
\* the level of ratio 0 equals low (BULLISH) or high (BEARISH) and the level
\* of ratio 1.0 equals high (BULLISH) or low (BEARISH).
C13_LevelsReachBothExtremes ==
    (calculated /\ results.error = "") =>
        /\ LevelFormulaHolds
        /\ RatioZeroAtOrigin
        /\ RatioOneAtExtreme

\* C13 as the code has it: the formula holds for every configured ratio and
\* the level of ratio 0 is the origin; the level of ratio 1.0 is the
\* opposite extreme whenever the subtraction high - low is exact, and
\* otherwise the rounded low + range (BULLISH) or high - range (BEARISH).
C13_LevelsUpToRounding ==
    (calculated /\ results.error = "") =>
        /\ LevelFormulaHolds
        /\ RatioZeroAtOrigin
        /\ (results.fibo_range = results.high_value - results.low_value
                => RatioOneAtExtreme)
        /\ \A n \in LevelsOfRatio(Scale) :
              results.fibo_levels[n] =
                  IF results.trend = "BULLISH"
                  THEN Round((results.low_value + results.fibo_range) * Scale)
                  ELSE Round((results.high_value - results.fibo_range) * Scale)

\* C13, the case: a BULLISH result whose range was rounded, so that the
\* level of ratio 1.0 is not the high
C13_Witness ==
    /\ calculated
    /\ results.error = ""
    /\ results.trend = "BULLISH"
    /\ results.fibo_range # results.high_value - results.low_value
    /\ LevelsOfRatio(Scale) # {}
    /\ \A n \in LevelsOfRatio(Scale) :
          results.fibo_levels[n] # results.high_value * Scale
    /\ \A n \in LevelsOfRatio(0) :
          results.fibo_levels[n] = results.low_value * Scale


-----------------------------------------------------------------------------
(* Properties of the golden zone and the signal, checked under SpecLevels  *)

\* C14: in every error-free result of calculate golden_zone_low is below
\* golden_zone_high, whatever bars were passed and whatever level set the
\* caller installed with setFibonacciLevels.
C14_ZoneLowBelowHigh ==
    (calculated /\ results.error = "") =>
        results.golden_zone_low < results.golden_zone_high

\* the ratios 0.382 and 0.618
GoldenLow == 382
GoldenHigh == 618

\* C15: the golden zone of an error-free result is derived from the ratios
\* 0.382 and 0.618 (BULLISH: low + range * 0.382 up to low + range * 0.618;
\* BEARISH: high - range * 0.618 up to high - range * 0.382), whatever
\* ratios the caller has put at which names of the level set.
C15_ZoneFromGoldenRatios ==
    (calculated /\ results.error = "") =>
        LET zone(r) ==
                IF results.trend = "BULLISH"
                THEN Round(results.low_value * Scale + Round(results.fibo_range * r))
                ELSE Round(results.high_value * Scale - Round(results.fibo_range * r))
        IN  IF results.trend = "BULLISH"
            THEN /\ results.golden_zone_low = zone(GoldenLow)
                 /\ results.golden_zone_high = zone(GoldenHigh)
            ELSE /\ results.golden_zone_low = zone(GoldenHigh)
                 /\ results.golden_zone_high = zone(GoldenLow)


\* C16: in an error-free result current_price is the close of the last bar
\* passed to calculate, and price_in_golden_zone is true exactly when
\* golden_zone_low <= current_price <= golden_zone_high, both bounds
\* included.
C16_InclusiveZoneTest ==
    (calculated /\ results.error = "") =>
        /\ results.current_price = in_bars[Len(in_bars)].close
        /\ results.price_in_golden_zone
              <=> (/\ results.golden_zone_low <= in_bars[Len(in_bars)].close * Scale
                   /\ in_bars[Len(in_bars)].close * Scale <= results.golden_zone_high)

\* C16, the case: the last close is exactly the lower bound of a zone that
\* is not a single point, and the price counts as inside
C16_Witness ==
    /\ calculated
    /\ results.error = ""
    /\ results.golden_zone_low < results.golden_zone_high
    /\ in_bars[Len(in_bars)].close * Scale = results.golden_zone_low
    /\ results.price_in_golden_zone

\* the results main reports on: those whose error is empty
SignalsAgree ==
    results.error = "" => mainSignal(results) = getSignal(results)

\* C17: the signal is BUY exactly when the trend is BULLISH and the price is
\* in the golden zone, SELL exactly when it is BEARISH and in the zone, HOLD
\* exactly when the price is not in the zone, NO_DATA exactly when an error
\* is set; and main's signal agrees with getSignal on error-free results.
C17_SignalTable ==
    /\ getSignal(results) = "BUY"
          <=> (results.trend = "BULLISH" /\ results.price_in_golden_zone)
    /\ getSignal(results) = "SELL"
          <=> (results.trend = "BEARISH" /\ results.price_in_golden_zone)
    /\ getSignal(results) = "HOLD" <=> ~results.price_in_golden_zone
    /\ getSignal(results) = "NO_DATA" <=> results.error # ""
    /\ SignalsAgree

\* C17 as the code has it: HOLD exactly when no error is set and the price
\* is not in the zone; the other rows as stated.
C17_SignalTableErrorFirst ==
    /\ getSignal(results) = "BUY"
          <=> (results.trend = "BULLISH" /\ results.price_in_golden_zone)
    /\ getSignal(results) = "SELL"
          <=> (results.trend = "BEARISH" /\ results.price_in_golden_zone)
    /\ getSignal(results) = "HOLD"
          <=> (results.error = "" /\ ~results.price_in_golden_zone)
    /\ getSignal(results) = "NO_DATA" <=> results.error # ""
    /\ SignalsAgree

\* C17, the case: a result with an error, whose price is not in the zone
\* and whose signal is NO_DATA, not HOLD
C17_Witness ==
    /\ calculated
    /\ results.error # ""
    /\ ~results.price_in_golden_zone
    /\ getSignal(results) = "NO_DATA"

\* the fields of a result other than the wall-clock timestamp
SansTimestamp(res) == [res EXCEPT !.timestamp = EmptyString]

\* C18: a call of calculate that follows another on the same engine, with
\* the same bars and the configuration the caller left untouched, yields
\* the result of the call before it, in every field (the timestamp, read
\* from the wall clock, left aside).
C18_SecondCallSameResult ==
    [][calculated => SansTimestamp(results') = SansTimestamp(results)]_vars


-----------------------------------------------------------------------------
(* Properties of concurrent calls, checked under SpecThreads               *)

\* what a call of calculate on thread t's vector returns when it runs alone
\* on the engine as constructed
AloneResults(t) ==
    {CalcOutcome(call_bars[t], bars_back, start_bar,
                 DefaultLevels, DefaultCache, ts).res : ts \in Timestamps}

\* C19: when two threads call calculate on the same engine at the same
\* time, each with a vector of its own and without a lock, each call
\* returns the result a call running alone on its vector would return.
C19_Reentrant ==
    \A t \in Threads : call_pc[t] = "done" => call_ret[t] \in AloneResults(t)


-----------------------------------------------------------------------------
(* Properties of data_mutex, checked under SpecMutex                       *)

\* the threads inside a statement that reads or writes historical_data
Accessing == {t \in LockThreads : section[t] = "access"}

\* thread t is inside a buffer access and owns data_mutex
AccessesLocked(t) == t \in Accessing /\ data_mutex = t

\* C20: every write of historical_data (the reset, the push) and every read
\* of it (the size in historicalDataEnd, the copy getHistoricalData returns)
\* is made by a thread that holds data_mutex, and no two threads are inside
\* a buffer access at the same time.
C20_BufferUnderMutex ==
    /\ \A t \in Accessing : data_mutex = t
    /\ Cardinality(Accessing) <= 1
    /\ [][/\ \A t \in LockThreads : section'[t] = "access" => data_mutex' = t
          /\ Cardinality({t \in LockThreads : section'[t] = "access"}) <= 1
          /\ (historical_data' # historical_data =>
                 AccessesLocked("caller") \/ AccessesLocked("reader"))
          /\ (gh_path' = "success" /\ gh_path # "success" =>
                 AccessesLocked("caller"))
          /\ (data_end_received' /\ ~data_end_received =>
                 AccessesLocked("reader"))]_vars

\* C20, the case: the reader is inside a push or the end callback, holding
\* the mutex, while the caller stands before getHistoricalData and has to
\* wait for the lock
C20_Witness ==
    /\ section["reader"] = "access"
    /\ data_mutex = "reader"
    /\ section["caller"] = "out"
    /\ pc = "get"
    /\ historical_data # << >>


-----------------------------------------------------------------------------
(* Properties of the completion signal, checked under Spec                 *)

\* C21: getHistoricalData returns by its success path for request N only
\* once the historicalDataEnd of request N has run: the end callback of an
\* earlier request, delivered after the reset of request N, does not
\* release the caller while request N is still being answered.
C21_ReleasedByOwnEnd ==
    gh_path = "success" => stream[req_no].st = "ended"


\* C22: no wakeup is lost.  When historicalDataEnd has run after the reset
\* and before the caller starts to wait in getHistoricalData, the call
\* returns at once by its success path with the whole buffer: it does not
\* block, and the request does not end in the timeout return.
C22_NoLostWakeup ==
    [][ /\ (pc = "get" /\ end_since_reset /\ pc' # "get"
               => /\ pc' = "got"
                  /\ gh_path' = "success"
                  /\ gh_bars' = historical_data
                  /\ gh_bars' = pushed
                  /\ wait_elapsed' = wait_elapsed)
        /\ (pc = "get" /\ pc' = "waiting" => ~end_since_reset)
        /\ (pc = "polling" /\ end_since_reset => pc' \in {"polling", "get"})
        /\ (pc \in {"polling", "get"} /\ end_since_reset /\ pc' \in {"polling", "get"}
               => end_since_reset' /\ data_end_received') ]_vars

\* C22, the case: the end arrived while the caller was still in its polling
\* loop, before the loop's 30 s had passed, and getHistoricalData returned
\* the bars without waiting
C22_Witness ==
    /\ pc = "got"
    /\ gh_path = "success"
    /\ poll_elapsed < PollSeconds
    /\ ~spurious
    /\ gh_bars # << >>
    /\ gh_bars = at_end

-----------------------------------------------------------------------------
(* Properties of the subscripts calculate reads, checked under SpecWindow  *)

\* C23: whatever ints the engine was built with and whatever vector it is
\* passed, calculate reads `bars` only at subscripts inside the vector; and
\* when the length check passes with barsBack <= 0 or startBar < 0, it
\* returns "Could not find highest/lowest bar" having read no bar.
C23_ReadsInsideBars ==
    calculated =>
        /\ reads \subseteq InBars(in_bars)
        /\ (/\ ~NotEnoughBars(in_bars, bars_back, start_bar)
            /\ (bars_back <= 0 \/ start_bar < 0)
            => /\ results.error = "Could not find highest/lowest bar"
               /\ reads = {})

-----------------------------------------------------------------------------
(* Properties of repeated calls, checked under SpecSequence                *)

\* C24: after any sequence of calls of calculate on one engine, getResults
\* and getSignal show the last call only: the results are what that call
\* computes from its own vector, and when it returned an error every
\* other field is zero, false or empty and getSignal returns "NO_DATA",
\* whatever the calls before it had stored.
C24_LastCallOnly ==
    calculated =>
        /\ SansTimestamp(results) =
              SansTimestamp(CalcOutcome(in_bars, bars_back, start_bar,
                                        DefaultLevels, DefaultCache, EmptyString).res)
        /\ (results.error # "" =>
              /\ results.timestamp = EmptyString
              /\ results.trend = ""
              /\ results.high_value = 0 /\ results.low_value = 0
              /\ results.high_time = EmptyString /\ results.low_time = EmptyString
              /\ results.high_bar_index = 0 /\ results.low_bar_index = 0
              /\ results.fibo_range = 0
              /\ results.fibo_levels = EmptyMap
              /\ results.golden_zone_low = 0 /\ results.golden_zone_high = 0
              /\ results.current_price = 0
              /\ results.price_in_golden_zone = FALSE
              /\ getSignal(results) = "NO_DATA")

\* C24, the case: an earlier call succeeded and left its extremes in the
\* cache, and the last call returned an error
C24_Witness ==
    /\ calculated
    /\ results.error = "Invalid price data"
    /\ last_cache # DefaultCache
    /\ last_cache.last_high_value = 2
    /\ results.high_value = 0
    /\ results.trend = ""
====
